---- MODULE Spec2Model ----
(***************************************************************************)
(* Host-side OpenCL dispatch of kale-miner (clprog.cpp): executeKernel and  *)
(* releaseResources.  Every driver call is one step of the calling thread;  *)
(* the driver's answer is a nondeterministic choice.  The device runs the   *)
(* enqueued kernel as a step of its own.                                    *)
(***************************************************************************)
EXTENDS Integers, Sequences, FiniteSets, TLC

VARIABLES
    pc,               \* position of the calling thread in executeKernel
    platform,         \* parameter: platform-name hint ("null" is a null pointer)
    deviceId,         \* parameter: device index (signed int)
    showDeviceInfo,   \* parameter
    threadsPerBlock,  \* parameter (signed int)
    batchSize,        \* parameter (unsigned 64-bit, scaled to SizeBits)
    output,           \* caller's 32-byte digest storage
    validNonce,       \* caller's nonce storage
    platformNames,    \* names of the enumerated platforms, in order
    platformIndex,    \* local platformIndex (line 64)
    numDevices,       \* local numDevices; -1 while uninitialised
    handles,          \* the local handle variables: TRUE when non-null
    live,             \* driver state: the device objects that exist
    acquired,         \* history: every device object ever created by the call
    infoEmitted,      \* history: device attributes were printed
    error,            \* local cl_int error (lines 175..185)
    argIdx,           \* next clSetKernelArg position
    bufIdx,           \* next clCreateBuffer
    maxWorkGroupSize, \* local (line 191)
    localWorkSize,    \* local (line 193)
    globalWorkSize,   \* local (line 194)
    kernelState,      \* device: "none", "enqueued", "done"
    flagWritten,      \* history: the blocking write of 0 to FoundFlag succeeded
    devFlag,          \* device memory: FoundFlag
    devDigest,        \* device memory: OutputDigest
    devNonce,         \* device memory: OutputNonce
    foundValue,       \* local foundValue (line 174)
    readsIssued,      \* history: readbacks handed to the driver
    relArgs,          \* arguments of the running releaseResources call
    relStage,         \* position inside releaseResources
    relI,             \* loop variable i of releaseResources
    relLog,           \* history: clRelease* calls, in order
    relCalls,         \* history: number of releaseResources calls
    retPending,       \* value the call site returns after releaseResources
    ret,              \* value returned by executeKernel, once pc = "returned"
    platformId,       \* local platformId: index into platforms; -1 when not a platform
    buildLog,         \* history: the build log was printed
    failed,           \* history: the steps whose failure the code acted on
    calls             \* number of executeKernel calls entered so far

vars == << pc, platform, deviceId, showDeviceInfo, threadsPerBlock, batchSize,
           output, validNonce, platformNames, platformIndex, numDevices,
           handles, live, acquired, infoEmitted, error, argIdx, bufIdx,
           maxWorkGroupSize, localWorkSize, globalWorkSize, kernelState,
           flagWritten, devFlag, devDigest, devNonce, foundValue, readsIssued,
           relArgs, relStage, relI, relLog, relCalls, retPending, ret,
           platformId, buildLog, failed, calls >>

-----------------------------------------------------------------------------
(* Widths and bounds *)

\* int and cl_uint are IntBits wide, size_t and uint64_t are SizeBits wide
IntBits == 4
SizeBits == 5
IntMod == 2 ^ IntBits
SizeMod == 2 ^ SizeBits

MaxDevices == 1
MaxGroup == 2

CL_SUCCESS == 0
BufferCount == 4
ArgCount == 9

\* error codes a failing driver call answers (CL_OUT_OF_RESOURCES, CL_OUT_OF_HOST_MEMORY)
ErrorCodes == {-5, -6}

\* platform lists the driver may enumerate, as the names getPlatform returns
NameLists == {<< >>, << "A" >>, << "B", "A" >>}
Hints == {"null", "", "A"}
DeviceIds == {-1, 0, 1}
ThreadsPerBlockValues == {-1, 0, 2}
BatchSizes == {0, 3, SizeMod - 1}
FlagValues == {0, 1, 2}
Digests == {"D1", "D2"}
Nonces == {"N1", "N2"}

-----------------------------------------------------------------------------
(* Integer conversions and bit operations *)

\* int -> cl_uint (usual arithmetic conversions of line 75)
ToUInt(i) == i % IntMod

\* static_cast<size_t>(int) (line 193)
ToSize(i) == i % SizeMod

\* unsigned -> int of the same width
ToInt(u) == IF u >= IntMod \div 2 THEN u - IntMod ELSE u

RECURSIVE BitOrU(_, _)
BitOrU(a, b) ==
    IF a = 0 THEN b
    ELSE IF b = 0 THEN a
    ELSE (IF a % 2 = 1 \/ b % 2 = 1 THEN 1 ELSE 0) + 2 * BitOrU(a \div 2, b \div 2)

\* error |= r
OrErrorAssign(e, r) == r
OrError(e, r) == ToInt(BitOrU(ToUInt(e), ToUInt(r)))

Min(a, b) == IF a < b THEN a ELSE b

-----------------------------------------------------------------------------
(* Resources *)

Buffers == <<"deviceDataBuffer", "foundBuffer", "outputBuffer", "validNonceBuffer">>
BufferSet == {Buffers[i] : i \in 1..BufferCount}
Objects == {"context", "commandQueue", "program", "kernel"}
Resources == Objects \cup BufferSet

NoHandles == [r \in Resources |-> FALSE]

Ended == pc \in {"returned", "exited", "crashed"}

-----------------------------------------------------------------------------
(* Pure parts of executeKernel *)

RECURSIVE PlatformLoop(_, _, _, _)
\* the loop of lines 65..70: i is the 0-based loop variable, idx is platformIndex
PlatformLoop(names, hint, i, idx) ==
    IF i >= Len(names) THEN idx
    ELSE LET match == idx < 0 /\ hint # "null" /\ hint # "" /\ names[i + 1] = hint
         IN  PlatformLoop(names, hint, i + 1, IF match THEN i ELSE idx)

SelectPlatformIndex(names, hint) == PlatformLoop(names, hint, 0, -1)

\* platformIndex != -1 ? platforms[platformIndex] : platforms[0] (line 71), as an index
SelectedPlatform(idx) == IF idx # -1 THEN idx ELSE 0

\* deviceId >= numDevices, int against cl_uint (line 75)
InvalidDeviceSigned(id, n) == id >= n
InvalidDevice(id, n) == ToUInt(id) >= ToUInt(n)

\* !kernel || error != CL_SUCCESS (line 156)
KernelFailed(k, e) == ~k \/ e # CL_SUCCESS

\* error != CL_SUCCESS (line 185)
DispatchFailedNever(e) == FALSE
DispatchFailed(e) == e # CL_SUCCESS

\* std::min(static_cast<size_t>(threadsPerBlock), maxWorkGroupSize) (line 193)
LocalWorkSize(tpb, maxGroup) == Min(ToSize(tpb), maxGroup)

\* ((batchSize + localWorkSize - 1) / localWorkSize) * localWorkSize (line 194),
\* every operation in size_t; local # 0
GlobalWorkSize(batch, local) ==
    ((((batch + local - 1) % SizeMod) \div local) * local) % SizeMod

\* foundValue == 1 (line 204)
ReadOutputsNonZero(found) == found # 0
ReadOutputs(found) == found = 1

\* return foundValue (line 209)
ReturnValueConst(found) == 0
ReturnValue(found) == found

-----------------------------------------------------------------------------
(* State after entry to executeKernel *)

NoArgs == [obj |-> [o \in Objects |-> FALSE], bufferCount |-> 0]

Locals ==
    /\ platformNames = << >>
    /\ platformIndex = -1
    /\ platformId = -1
    /\ numDevices = -1
    /\ infoEmitted = FALSE
    /\ buildLog = FALSE
    /\ failed = {}
    /\ error = 0
    /\ argIdx = 0
    /\ bufIdx = 0
    /\ maxWorkGroupSize = 0
    /\ localWorkSize = 0
    /\ globalWorkSize = 0
    /\ kernelState = "none"
    /\ flagWritten = FALSE
    /\ devFlag = 0
    /\ devDigest = "undef"
    /\ devNonce = "undef"
    /\ foundValue = 0
    /\ readsIssued = {}
    /\ relStage = "end"
    /\ relI = 0
    /\ relLog = << >>
    /\ relCalls = 0
    /\ retPending = 0
    /\ ret = 0

Init ==
    /\ pc = "start"
    /\ platform \in Hints
    /\ deviceId \in DeviceIds
    /\ showDeviceInfo \in BOOLEAN
    /\ threadsPerBlock \in ThreadsPerBlockValues
    /\ batchSize \in BatchSizes
    /\ output = "orig"
    /\ validNonce = "orig"
    /\ handles = NoHandles
    /\ live = {}
    /\ acquired = {}
    /\ relArgs = NoArgs
    /\ calls = 1
    /\ Locals

params == << platform, deviceId, showDeviceInfo, threadsPerBlock, batchSize, calls >>
caller == << output, validNonce >>
enumv == << platformNames, platformIndex, platformId, numDevices, infoEmitted, buildLog >>
drv == << handles, live, acquired >>
disp == << error, argIdx, bufIdx, maxWorkGroupSize, localWorkSize, globalWorkSize >>
dev == << kernelState, flagWritten, devFlag, devDigest, devNonce >>
rd == << foundValue, readsIssued >>
rel == << relArgs, relStage, relI, relLog, relCalls, retPending >>

\* exit(EXIT_FAILURE) of CL_CALL (lines 22..30)
Exit(step) == pc' = "exited" /\ failed' = failed \cup {step} /\ UNCHANGED ret

Return(v) == pc' = "returned" /\ ret' = v

\* the code has seen the failure of a step
Fail(step) == failed' = failed \cup {step}

\* clCreate* succeeded: the local holds the handle and the object exists
Acquire(r) ==
    /\ handles' = [handles EXCEPT ![r] = TRUE]
    /\ live' = live \cup {r}
    /\ acquired' = acquired \cup {r}

\* the argument lists of the releaseResources calls
PassedAtQueueContextOnly == {"context"}
PassedAtQueue == {"context", "commandQueue"}
PassedAtProgramNoProgram == {"context", "commandQueue"}
PassedAtProgram == {"context", "commandQueue", "program"}
PassedAtKernelNoContext == Objects \ {"context"}
PassedAtKernel == Objects

\* releaseResources(...) is entered with the given locals; rv is returned after it
CallRelease(passed, count, rv) ==
    /\ pc' = "release"
    /\ relArgs' = [obj |-> [o \in Objects |-> o \in passed /\ handles'[o]],
                   bufferCount |-> count]
    /\ relStage' = "buffers"
    /\ relI' = 0
    /\ relCalls' = relCalls + 1
    /\ retPending' = rv
    /\ UNCHANGED << relLog, ret >>

-----------------------------------------------------------------------------
(* DeviceEnumerator: lines 59..105 *)

\* lines 59..70 with every CL_CALL succeeding
EnumeratePlatforms ==
    /\ pc = "start"
    /\ \E names \in NameLists :
          /\ platformNames' = names
          /\ platformIndex' = SelectPlatformIndex(names, platform)
    /\ pc' = "select_platform"
    /\ UNCHANGED << params, caller, platformId, numDevices, infoEmitted, buildLog, drv, disp, dev, rd, rel, ret >>
    /\ UNCHANGED failed

\* a CL_CALL of lines 59..66 fails
EnumeratePlatformsFail ==
    /\ pc = "start"
    /\ Exit("platforms")
    /\ UNCHANGED << params, caller, enumv, drv, disp, dev, rd, rel >>

\* line 71; platforms[0] of an empty vector is undefined: the read faults or
\* yields a garbage handle
SelectPlatform ==
    /\ pc = "select_platform"
    /\ IF Len(platformNames) = 0
       THEN pc' \in {"crashed", "device_count"} /\ platformId' = -1
       ELSE pc' = "device_count" /\ platformId' = SelectedPlatform(platformIndex)
    /\ UNCHANGED << params, caller, platformNames, platformIndex, numDevices, infoEmitted,
                    buildLog, drv, disp, dev, rd, rel, ret >>
    /\ UNCHANGED failed

\* line 73
CountDevices ==
    /\ pc = "device_count"
    /\ \E n \in 0..MaxDevices : numDevices' = n
    /\ pc' = "check_device"
    /\ UNCHANGED << params, caller, platformNames, platformIndex, platformId, infoEmitted, buildLog,
                    drv, disp, dev, rd, rel, ret >>
    /\ UNCHANGED failed

CountDevicesFail ==
    /\ pc = "device_count"
    /\ Exit("devices")
    /\ UNCHANGED << params, caller, enumv, drv, disp, dev, rd, rel >>

\* lines 75..78
RejectDevice ==
    /\ pc = "check_device"
    /\ InvalidDevice(deviceId, numDevices)
    /\ Return(-1)
    /\ UNCHANGED << params, caller, enumv, drv, disp, dev, rd, rel >>
    /\ Fail("invalid_device")

\* lines 80..82
SelectDevice ==
    /\ pc = "check_device"
    /\ ~InvalidDevice(deviceId, numDevices)
    /\ pc' = IF showDeviceInfo THEN "device_info" ELSE "create_context"
    /\ UNCHANGED << params, caller, enumv, drv, disp, dev, rd, rel, ret >>
    /\ UNCHANGED failed

SelectDeviceFail ==
    /\ pc = "check_device"
    /\ ~InvalidDevice(deviceId, numDevices)
    /\ Exit("devices")
    /\ UNCHANGED << params, caller, enumv, drv, disp, dev, rd, rel >>

\* lines 84..105
ShowDeviceInfo ==
    /\ pc = "device_info"
    /\ infoEmitted' = TRUE
    /\ pc' = "create_context"
    /\ UNCHANGED << params, caller, platformNames, platformIndex, platformId, numDevices, buildLog,
                    drv, disp, dev, rd, rel, ret >>
    /\ UNCHANGED failed

ShowDeviceInfoFail ==
    /\ pc = "device_info"
    /\ Exit("device_info")
    /\ UNCHANGED << params, caller, enumv, drv, disp, dev, rd, rel >>

-----------------------------------------------------------------------------
(* Context, queue, program, kernel: lines 107..160 *)

CreateContext ==
    /\ pc = "create_context"
    /\ Acquire("context")
    /\ pc' = "create_queue"
    /\ UNCHANGED << params, caller, enumv, disp, dev, rd, rel, ret >>
    /\ UNCHANGED failed

\* lines 108..111
CreateContextFail ==
    /\ pc = "create_context"
    /\ Return(-1)
    /\ UNCHANGED << params, caller, enumv, drv, disp, dev, rd, rel >>
    /\ Fail("context")

CreateQueue ==
    /\ pc = "create_queue"
    /\ Acquire("commandQueue")
    /\ pc' = "open_files"
    /\ UNCHANGED << params, caller, enumv, disp, dev, rd, rel, ret >>
    /\ UNCHANGED failed

CreateQueueFailExit ==
    /\ pc = "create_queue"
    /\ Exit("queue")
    /\ UNCHANGED << params, caller, enumv, drv, disp, dev, rd, rel >>

\* lines 117..121
CreateQueueFail ==
    /\ pc = "create_queue"
    /\ UNCHANGED drv
    /\ CallRelease(PassedAtQueue, 0, -1)
    /\ UNCHANGED << params, caller, enumv, disp, dev, rd >>
    /\ Fail("queue")

\* lines 123..136
OpenKernelFiles ==
    /\ pc = "open_files"
    /\ pc' = "create_program"
    /\ UNCHANGED << params, caller, enumv, drv, disp, dev, rd, rel, ret >>
    /\ UNCHANGED failed

\* lines 125..129
OpenKernelFilesFail ==
    /\ pc = "open_files"
    /\ UNCHANGED drv
    /\ CallRelease(PassedAtQueue, 0, -1)
    /\ UNCHANGED << params, caller, enumv, disp, dev, rd >>
    /\ Fail("files")

CreateProgram ==
    /\ pc = "create_program"
    /\ Acquire("program")
    /\ pc' = "build_program"
    /\ UNCHANGED << params, caller, enumv, disp, dev, rd, rel, ret >>
    /\ UNCHANGED failed

\* lines 139..143
CreateProgramFail ==
    /\ pc = "create_program"
    /\ UNCHANGED drv
    /\ CallRelease(PassedAtProgram, 0, -1)
    /\ UNCHANGED << params, caller, enumv, disp, dev, rd >>
    /\ Fail("program")

\* line 145
BuildProgram ==
    /\ pc = "build_program"
    /\ pc' = "create_kernel"
    /\ UNCHANGED << params, caller, enumv, drv, disp, dev, rd, rel, ret >>
    /\ UNCHANGED failed

\* lines 146..154
BuildProgramFail ==
    /\ pc = "build_program"
    /\ pc' = "build_log"
    /\ Fail("build")
    /\ UNCHANGED << params, caller, enumv, drv, disp, dev, rd, rel, ret >>

\* lines 147..153: the log size and the log are fetched and the log is printed
PrintBuildLog ==
    /\ pc = "build_log"
    /\ buildLog' = TRUE
    /\ UNCHANGED drv
    /\ CallRelease(PassedAtProgram, 0, -1)
    /\ UNCHANGED << params, caller, platformNames, platformIndex, platformId, numDevices,
                    infoEmitted, disp, dev, rd, failed >>

\* line 148 answers an error, which is discarded: logSize stays uninitialised and
\* line 149 builds a vector of that size, which throws (length_error, bad_alloc)
\* or yields a buffer that line 151 prints
PrintBuildLogNoSize ==
    /\ pc = "build_log"
    /\ \/ /\ pc' = "crashed"
          /\ UNCHANGED << drv, rel, ret, buildLog >>
       \/ /\ buildLog' = TRUE
          /\ UNCHANGED drv
          /\ CallRelease(PassedAtProgram, 0, -1)
    /\ UNCHANGED << params, caller, platformNames, platformIndex, platformId, numDevices,
                    infoEmitted, disp, dev, rd, failed >>

\* lines 155..160: the driver answers a handle (or null) and an error code
CreateKernel ==
    /\ pc = "create_kernel"
    /\ \E k \in BOOLEAN, e \in {CL_SUCCESS} \cup ErrorCodes :
          /\ IF k THEN Acquire("kernel") ELSE UNCHANGED drv
          /\ error' = e
          /\ IF KernelFailed(k, e)
             THEN CallRelease(PassedAtKernel, 0, -1) /\ Fail("kernel")
             ELSE /\ pc' = "create_buffers"
                  /\ UNCHANGED << rel, ret, failed >>
    /\ UNCHANGED << params, caller, enumv, argIdx, bufIdx, maxWorkGroupSize,
                    localWorkSize, globalWorkSize, dev, rd >>

-----------------------------------------------------------------------------
(* BufferSet: lines 162..189 *)

\* one clCreateBuffer of lines 162..165; a failing call leaves the local null
CreateBuffer ==
    /\ pc = "create_buffers"
    /\ bufIdx < BufferCount
    /\ \/ Acquire(Buffers[bufIdx + 1]) /\ UNCHANGED failed
       \/ UNCHANGED drv /\ Fail("buffer")
    /\ bufIdx' = bufIdx + 1
    /\ UNCHANGED << pc, params, caller, enumv, error, argIdx, maxWorkGroupSize,
                    localWorkSize, globalWorkSize, dev, rd, rel, ret >>

\* lines 166..173
CheckBuffers ==
    /\ pc = "create_buffers"
    /\ bufIdx = BufferCount
    /\ UNCHANGED drv
    /\ IF \E b \in BufferSet : ~handles[b]
       THEN CallRelease(PassedAtKernel, BufferCount, -1)
       ELSE /\ pc' = "write_flag"
            /\ UNCHANGED << rel, ret >>
    /\ UNCHANGED << params, caller, enumv, disp, dev, rd >>
    /\ UNCHANGED failed

\* lines 174..175: blocking write of foundValue = 0 into foundBuffer
WriteFoundFlag ==
    /\ pc = "write_flag"
    /\ foundValue' = 0
    /\ \E r \in {CL_SUCCESS} \cup ErrorCodes :
          /\ error' = r
          /\ IF r = CL_SUCCESS
             THEN flagWritten' = TRUE /\ devFlag' = foundValue' /\ UNCHANGED failed
             ELSE Fail("write") /\ UNCHANGED << flagWritten, devFlag >>
    /\ argIdx' = 0
    /\ pc' = "set_args"
    /\ UNCHANGED << params, caller, enumv, drv, bufIdx, maxWorkGroupSize, localWorkSize,
                    globalWorkSize, kernelState, devDigest, devNonce, readsIssued,
                    rel, ret >>

\* one clSetKernelArg of lines 176..184
SetKernelArg ==
    /\ pc = "set_args"
    /\ argIdx < ArgCount
    /\ \E r \in {CL_SUCCESS} \cup ErrorCodes :
          /\ error' = OrError(error, r)
          /\ IF r = CL_SUCCESS THEN UNCHANGED failed ELSE Fail("arg")
    /\ argIdx' = argIdx + 1
    /\ UNCHANGED << pc, params, caller, enumv, drv, bufIdx, maxWorkGroupSize,
                    localWorkSize, globalWorkSize, dev, rd, rel, ret >>

\* lines 185..189
CheckArgs ==
    /\ pc = "set_args"
    /\ argIdx = ArgCount
    /\ UNCHANGED drv
    /\ IF DispatchFailed(error)
       THEN CallRelease(PassedAtKernel, BufferCount, -1)
       ELSE /\ pc' = "query_group"
            /\ UNCHANGED << rel, ret >>
    /\ UNCHANGED << params, caller, enumv, disp, dev, rd >>
    /\ UNCHANGED failed

-----------------------------------------------------------------------------
(* WorkPartitioner: lines 191..194 *)

\* what an uninitialised size_t may hold
GarbageSizes == {0, SizeMod - 1}

\* line 192; the answer of the query is discarded, and a failing query leaves
\* maxWorkGroupSize uninitialised
QueryGroupSize ==
    /\ pc = "query_group"
    /\ \/ \E m \in 1..MaxGroup : maxWorkGroupSize' = m
       \/ \E g \in GarbageSizes : maxWorkGroupSize' = g
    /\ pc' = "partition"
    /\ UNCHANGED << params, caller, enumv, drv, error, argIdx, bufIdx, localWorkSize,
                    globalWorkSize, dev, rd, rel, ret >>
    /\ UNCHANGED failed

\* lines 193..194; a division by zero is undefined: the division traps or yields 0
ComputeWorkSizes ==
    /\ pc = "partition"
    /\ LET local == LocalWorkSize(threadsPerBlock, maxWorkGroupSize)
       IN  /\ localWorkSize' = local
           /\ IF local = 0
              THEN \/ pc' = "crashed" /\ UNCHANGED globalWorkSize
                   \/ pc' = "enqueue" /\ globalWorkSize' = 0
              ELSE /\ pc' = "enqueue"
                   /\ globalWorkSize' = GlobalWorkSize(batchSize, local)
    /\ UNCHANGED << params, caller, enumv, drv, error, argIdx, bufIdx, maxWorkGroupSize,
                    dev, rd, rel, ret >>
    /\ UNCHANGED failed

-----------------------------------------------------------------------------
(* DispatchEngine: lines 195..209 *)

\* line 195
EnqueueKernel ==
    /\ pc = "enqueue"
    /\ kernelState' = "enqueued"
    /\ pc' = "finish"
    /\ UNCHANGED << params, caller, enumv, drv, disp, flagWritten, devFlag, devDigest,
                    devNonce, rd, rel, ret >>
    /\ UNCHANGED failed

\* lines 196..200
EnqueueKernelFail ==
    /\ pc = "enqueue"
    /\ UNCHANGED drv
    /\ CallRelease(PassedAtKernel, BufferCount, -1)
    /\ UNCHANGED << params, caller, enumv, disp, dev, rd >>
    /\ Fail("enqueue")

\* the device executes the kernel "run": it leaves a value in FoundFlag and,
\* when it sets the flag to 1, a digest and a nonce
DeviceRunKernel ==
    /\ kernelState = "enqueued"
    /\ ~Ended
    /\ kernelState' = "done"
    /\ \E f \in FlagValues :
          /\ devFlag' = f
          /\ IF f # 1
             THEN UNCHANGED << devDigest, devNonce >>
             ELSE \E d \in Digests, n \in Nonces : devDigest' = d /\ devNonce' = n
    /\ UNCHANGED << pc, params, caller, enumv, drv, disp, flagWritten, rd, rel, ret >>
    /\ UNCHANGED failed

\* line 202: clFinish returns once every enqueued command has completed
Finish ==
    /\ pc = "finish"
    /\ kernelState = "done"
    /\ pc' = "read_found"
    /\ UNCHANGED << params, caller, enumv, drv, disp, dev, rd, rel, ret >>
    /\ UNCHANGED failed

\* line 202: clFinish answers an error; the answer is discarded
FinishFail ==
    /\ pc = "finish"
    /\ pc' = "read_found"
    /\ UNCHANGED << params, caller, enumv, drv, disp, dev, rd, rel, ret >>
    /\ UNCHANGED failed

\* a readback is handed to the driver
IssueRead(what) ==
    readsIssued' = readsIssued \cup {what}

\* line 203: the blocking read is accepted by the driver
ReadFound ==
    /\ pc = "read_found"
    /\ IssueRead("found")
    /\ pc' = "wait_found"
    /\ UNCHANGED << params, caller, enumv, drv, disp, dev, foundValue, rel, ret >>
    /\ UNCHANGED failed

\* line 203: CL_CALL exits
ReadFoundFail ==
    /\ pc = "read_found"
    /\ Exit("read_found")
    /\ UNCHANGED << params, caller, enumv, drv, disp, dev, rd, rel >>

\* line 203: the blocking read completes; the queue is in order, so the read
\* runs after the kernel; line 204
ReadFoundComplete ==
    /\ pc = "wait_found"
    /\ kernelState = "done"
    /\ foundValue' = devFlag
    /\ pc' = IF ReadOutputs(foundValue') THEN "read_output" ELSE "final_release"
    /\ UNCHANGED << params, caller, enumv, drv, disp, dev, readsIssued, rel, ret >>
    /\ UNCHANGED failed

\* line 205
ReadOutput ==
    /\ pc = "read_output"
    /\ IssueRead("output")
    /\ output' = devDigest
    /\ pc' = "read_nonce"
    /\ UNCHANGED << params, validNonce, enumv, drv, disp, dev, foundValue, rel, ret >>
    /\ UNCHANGED failed

ReadOutputFail ==
    /\ pc = "read_output"
    /\ Exit("read_output")
    /\ UNCHANGED << params, caller, enumv, drv, disp, dev, rd, rel >>

\* line 206
ReadNonce ==
    /\ pc = "read_nonce"
    /\ IssueRead("nonce")
    /\ validNonce' = devNonce
    /\ pc' = "final_release"
    /\ UNCHANGED << params, output, enumv, drv, disp, dev, foundValue, rel, ret >>
    /\ UNCHANGED failed

ReadNonceFail ==
    /\ pc = "read_nonce"
    /\ Exit("read_nonce")
    /\ UNCHANGED << params, caller, enumv, drv, disp, dev, rd, rel >>

\* line 208
FinalRelease ==
    /\ pc = "final_release"
    /\ UNCHANGED drv
    /\ CallRelease(PassedAtKernel, BufferCount, ReturnValue(foundValue))
    /\ UNCHANGED << params, caller, enumv, disp, dev, rd >>
    /\ UNCHANGED failed

-----------------------------------------------------------------------------
(* ResourceLedger: releaseResources, lines 32..41 *)

\* the order of the statements of releaseResources
NextStageProgramFirst(stage) ==
    CASE stage = "buffers" -> "program"
      [] stage = "program" -> "kernel"
      [] stage = "kernel" -> "commandQueue"
      [] stage = "commandQueue" -> "context"
      [] stage = "context" -> "end"
NextStageAgain(stage) ==
    CASE stage = "buffers" -> "kernel"
      [] stage = "kernel" -> "program"
      [] stage = "program" -> "commandQueue"
      [] stage = "commandQueue" -> "context"
      [] stage = "context" -> "buffers"
NextStage(stage) ==
    CASE stage = "buffers" -> "kernel"
      [] stage = "kernel" -> "program"
      [] stage = "program" -> "commandQueue"
      [] stage = "commandQueue" -> "context"
      [] stage = "context" -> "end"

\* clRelease*(r): the object is gone; the call is logged
DriverRelease(r) ==
    /\ live' = live \ {r}
    /\ relLog' = Append(relLog, r)

\* lines 34..36: one iteration of the loop, or its exit
ReleaseBuffer ==
    /\ pc = "release"
    /\ relStage = "buffers"
    /\ IF relI < relArgs.bufferCount
       THEN /\ IF handles[Buffers[relI + 1]]
               THEN DriverRelease(Buffers[relI + 1])
               ELSE UNCHANGED << live, relLog >>
            /\ relI' = relI + 1
            /\ UNCHANGED relStage
       ELSE /\ relStage' = NextStage(relStage)
            /\ UNCHANGED << live, relLog, relI >>
    /\ UNCHANGED << pc, params, caller, enumv, handles, acquired, disp, dev, rd,
                    relArgs, relCalls, retPending, ret >>
    /\ UNCHANGED failed

\* lines 37..40: if (h) clRelease*(h)
ReleaseObject(o) ==
    /\ pc = "release"
    /\ relStage = o
    /\ IF relArgs.obj[o]
       THEN DriverRelease(o)
       ELSE UNCHANGED << live, relLog >>
    /\ relStage' = NextStage(relStage)
    /\ UNCHANGED << pc, params, caller, enumv, handles, acquired, disp, dev, rd,
                    relArgs, relI, relCalls, retPending, ret >>
    /\ UNCHANGED failed

ReleaseKernel == ReleaseObject("kernel")
ReleaseProgram == ReleaseObject("program")
ReleaseQueue == ReleaseObject("commandQueue")
ReleaseContext == ReleaseObject("context")

\* the return statement that follows a releaseResources call
ReturnAfterRelease ==
    /\ pc = "release"
    /\ relStage = "end"
    /\ Return(retPending)
    /\ UNCHANGED << params, caller, enumv, drv, disp, dev, rd, rel >>
    /\ UNCHANGED failed

-----------------------------------------------------------------------------

Next ==
    \/ EnumeratePlatforms \/ EnumeratePlatformsFail \/ SelectPlatform
    \/ CountDevices \/ CountDevicesFail \/ RejectDevice
    \/ SelectDevice \/ SelectDeviceFail \/ ShowDeviceInfo \/ ShowDeviceInfoFail
    \/ CreateContext \/ CreateContextFail \/ CreateQueue \/ CreateQueueFail
    \/ OpenKernelFiles \/ OpenKernelFilesFail \/ CreateProgram \/ CreateProgramFail
    \/ BuildProgram \/ BuildProgramFail \/ PrintBuildLog \/ PrintBuildLogNoSize \/ CreateKernel
    \/ CreateBuffer \/ CheckBuffers \/ WriteFoundFlag \/ SetKernelArg \/ CheckArgs
    \/ QueryGroupSize \/ ComputeWorkSizes
    \/ EnqueueKernel \/ EnqueueKernelFail \/ DeviceRunKernel \/ Finish \/ FinishFail
    \/ ReadFound \/ ReadFoundFail \/ ReadFoundComplete
    \/ ReadOutput \/ ReadOutputFail \/ ReadNonce \/ ReadNonceFail \/ FinalRelease
    \/ ReleaseBuffer \/ ReleaseKernel \/ ReleaseProgram \/ ReleaseQueue
    \/ ReleaseContext \/ ReturnAfterRelease

Spec == Init /\ [][Next]_vars

\* every driver call eventually answers and the device eventually completes
\* what was enqueued: a step that can be taken is eventually taken
SpecFair == Init /\ [][Next]_vars /\ WF_vars(Next)

-----------------------------------------------------------------------------
(* The work partition of lines 193..194 on its own, over every triple *)

Ints == (0 - IntMod \div 2) .. (IntMod \div 2 - 1)

\* the state at line 191 of a call whose earlier steps all succeeded
InitPartition ==
    /\ pc = "partition"
    /\ platform = "null"
    /\ deviceId = 0
    /\ showDeviceInfo = FALSE
    /\ threadsPerBlock \in Ints
    /\ batchSize \in 0..(SizeMod - 1)
    /\ maxWorkGroupSize \in 1..MaxGroup
    /\ output = "orig"
    /\ validNonce = "orig"
    /\ platformNames = << "A" >>
    /\ platformIndex = -1
    /\ platformId = 0
    /\ numDevices = 1
    /\ infoEmitted = FALSE
    /\ buildLog = FALSE
    /\ failed = {}
    /\ calls = 1
    /\ handles = [r \in Resources |-> TRUE]
    /\ live = Resources
    /\ acquired = Resources
    /\ error = CL_SUCCESS
    /\ argIdx = ArgCount
    /\ bufIdx = BufferCount
    /\ localWorkSize = 0
    /\ globalWorkSize = 0
    /\ kernelState = "none"
    /\ flagWritten = TRUE
    /\ devFlag = 0
    /\ devDigest = "undef"
    /\ devNonce = "undef"
    /\ foundValue = 0
    /\ readsIssued = {}
    /\ relArgs = NoArgs
    /\ relStage = "end"
    /\ relI = 0
    /\ relLog = << >>
    /\ relCalls = 0
    /\ retPending = 0
    /\ ret = 0

NextPartition == ComputeWorkSizes

SpecPartition == InitPartition /\ [][NextPartition]_vars

-----------------------------------------------------------------------------
(* Platform selection on its own: every platform list of up to MaxPlatforms  *)
(* names and every kind of hint                                              *)

MaxPlatforms == 3
PlatformNameSet == {"A", "B"}
AllNameLists == UNION {[1..n -> PlatformNameSet] : n \in 0..MaxPlatforms}
AllHints == {"null", "", "A", "C"}

InitPlatform ==
    /\ pc = "start"
    /\ platform \in AllHints
    /\ deviceId = 0
    /\ showDeviceInfo = FALSE
    /\ threadsPerBlock = 2
    /\ batchSize = 3
    /\ output = "orig"
    /\ validNonce = "orig"
    /\ handles = NoHandles
    /\ live = {}
    /\ acquired = {}
    /\ relArgs = NoArgs
    /\ calls = 1
    /\ Locals

\* lines 59..70 with every CL_CALL succeeding, for any enumerated list
EnumerateAnyPlatforms ==
    /\ pc = "start"
    /\ \E names \in AllNameLists :
          /\ platformNames' = names
          /\ platformIndex' = SelectPlatformIndex(names, platform)
    /\ pc' = "select_platform"
    /\ UNCHANGED << params, caller, platformId, numDevices, infoEmitted, buildLog, drv,
                    disp, dev, rd, rel, ret, failed >>

NextPlatform ==
    \/ EnumerateAnyPlatforms
    \/ SelectPlatform

SpecPlatform == InitPlatform /\ [][NextPlatform]_vars

-----------------------------------------------------------------------------
(* Sequential calls with identical valid parameters: the driver's live       *)
(* resources and the caller's storage persist, everything else starts afresh *)

MaxCalls == 2

InitRepeat ==
    /\ pc = "start"
    /\ platform \in Hints
    /\ deviceId = 0
    /\ showDeviceInfo \in BOOLEAN
    /\ threadsPerBlock = 2
    /\ batchSize = 3
    /\ output = "orig"
    /\ validNonce = "orig"
    /\ handles = NoHandles
    /\ live = {}
    /\ acquired = {}
    /\ relArgs = NoArgs
    /\ calls = 1
    /\ Locals

\* executeKernel is entered again after it has returned (lines 51..57)
CallAgain ==
    /\ pc = "returned"
    /\ calls < MaxCalls
    /\ calls' = calls + 1
    /\ pc' = "start"
    /\ handles' = NoHandles
    /\ acquired' = {}
    /\ relArgs' = NoArgs
    /\ platformNames' = << >>
    /\ platformIndex' = -1
    /\ platformId' = -1
    /\ numDevices' = -1
    /\ infoEmitted' = FALSE
    /\ buildLog' = FALSE
    /\ failed' = {}
    /\ error' = 0
    /\ argIdx' = 0
    /\ bufIdx' = 0
    /\ maxWorkGroupSize' = 0
    /\ localWorkSize' = 0
    /\ globalWorkSize' = 0
    /\ kernelState' = "none"
    /\ flagWritten' = FALSE
    /\ devFlag' = 0
    /\ devDigest' = "undef"
    /\ devNonce' = "undef"
    /\ foundValue' = 0
    /\ readsIssued' = {}
    /\ relStage' = "end"
    /\ relI' = 0
    /\ relLog' = << >>
    /\ relCalls' = 0
    /\ retPending' = 0
    /\ ret' = 0
    /\ UNCHANGED << platform, deviceId, showDeviceInfo, threadsPerBlock, batchSize,
                    caller, live >>

NextRepeat ==
    \/ Next
    \/ CallAgain

SpecRepeat == InitRepeat /\ [][NextRepeat]_vars

-----------------------------------------------------------------------------
(* releaseResources on its own: a partially populated resource set, released *)
(* once and then again with the same arguments                               *)

MaxReleaseCalls == 2

\* context, commandQueue, program, kernel in the order of their creation
Chain == << "context", "commandQueue", "program", "kernel" >>

InitLedger ==
    /\ pc = "release"
    /\ platform = "null"
    /\ deviceId = 0
    /\ showDeviceInfo = FALSE
    /\ threadsPerBlock = 0
    /\ batchSize = 0
    /\ maxWorkGroupSize = 0
    /\ output = "orig"
    /\ validNonce = "orig"
    /\ platformNames = << "A" >>
    /\ platformIndex = -1
    /\ platformId = 0
    /\ numDevices = 1
    /\ infoEmitted = FALSE
    /\ buildLog = FALSE
    /\ failed = {}
    /\ calls = 1
    /\ \E level \in 0..4, n \in 0..BufferCount, count \in {0, BufferCount} :
          /\ handles = [r \in Resources |->
                          \/ \E i \in 1..level : r = Chain[i]
                          \/ \E i \in 1..n : level >= 1 /\ count > 0 /\ r = Buffers[i]]
          /\ relArgs = [obj |-> [o \in Objects |-> handles[o]], bufferCount |-> count]
    /\ live = {r \in Resources : handles[r]}
    /\ acquired = live
    /\ error = CL_SUCCESS
    /\ argIdx = 0
    /\ bufIdx = 0
    /\ localWorkSize = 0
    /\ globalWorkSize = 0
    /\ kernelState = "none"
    /\ flagWritten = FALSE
    /\ devFlag = 0
    /\ devDigest = "undef"
    /\ devNonce = "undef"
    /\ foundValue = 0
    /\ readsIssued = {}
    /\ relStage = "buffers"
    /\ relI = 0
    /\ relLog = << >>
    /\ relCalls = 1
    /\ retPending = -1
    /\ ret = 0

\* releaseResources is called again with the arguments of the call that ended
ReleaseAgain ==
    /\ pc = "release"
    /\ relStage = "end"
    /\ relCalls < MaxReleaseCalls
    /\ relStage' = "buffers"
    /\ relI' = 0
    /\ relCalls' = relCalls + 1
    /\ UNCHANGED << pc, params, caller, enumv, drv, disp, dev, rd, relArgs, relLog,
                    retPending, ret >>
    /\ UNCHANGED failed

NextLedger ==
    \/ ReleaseBuffer \/ ReleaseKernel \/ ReleaseProgram \/ ReleaseQueue
    \/ ReleaseContext \/ ReleaseAgain

SpecLedger == InitLedger /\ [][NextLedger]_vars

-----------------------------------------------------------------------------
(* Properties *)

Released(r) == \E i \in 1..Len(relLog) : relLog[i] = r
ReleaseCount(r) == Cardinality({i \in 1..Len(relLog) : relLog[i] = r})

\* the blocking read of FoundFlag has completed
FoundReadBack == "found" \in readsIssued /\ pc # "wait_found"

\* the write of line 175 was attempted and answered an error
FlagWriteFailed ==
    /\ BufferSet \subseteq acquired
    /\ pc \notin {"create_buffers", "write_flag"}
    /\ ~flagWritten

\* C1: whenever executeKernel has ended, by a return or by the exit of CL_CALL,
\* every device resource acquired during the call has been released.
C1_AllReleasedAtEnd == pc \in {"returned", "exited"} => live = {}

\* C2: the value returned by executeKernel is one of -1, 0, 1, whatever value the
\* kernel leaves in FoundFlag.
C2_ReturnTriState == pc = "returned" => ret \in {-1, 0, 1}

\* C3: once the devices are counted and the device index, compared as the code
\* compares it (as an unsigned value), is at or beyond the count, the call can
\* only return -1: no resource is ever created and no device attribute is printed.
C3_InvalidDeviceRejected ==
    (numDevices >= 0 /\ deviceId % IntMod >= numDevices) =>
        /\ acquired = {}
        /\ ~infoEmitted
        /\ pc \in {"check_device", "returned"}
        /\ pc = "returned" => ret = -1

C3_Witness ==
    /\ pc = "returned"
    /\ ret = -1
    /\ numDevices >= 0
    /\ deviceId % IntMod >= numDevices
    /\ deviceId < 0

\* C4: OutputDigest and OutputNonce are read back only after FoundFlag was read
\* back as exactly 1; when FoundFlag reads back as 0, neither is read and the
\* call can only return 0.
C4_OutputsGatedByFlag ==
    /\ (readsIssued \cap {"output", "nonce"} # {}) => (FoundReadBack /\ foundValue = 1)
    /\ (FoundReadBack /\ foundValue = 0) =>
          /\ readsIssued = {"found"}
          /\ pc \in {"final_release", "release", "returned"}
          /\ pc = "returned" => ret = 0

C4_Witness ==
    /\ pc = "returned"
    /\ FoundReadBack
    /\ foundValue = 0
    /\ ret = 0

\* C5: when the call returns after the kernel left 1 in FoundFlag and a digest
\* and a nonce in the output buffers, it returns 1 and the caller's output and
\* nonce equal that digest and nonce.
C5_FoundOutputs ==
    (pc = "returned" /\ FoundReadBack /\ devFlag = 1) =>
        /\ ret = 1
        /\ output = devDigest
        /\ validNonce = devNonce
        /\ output \in Digests
        /\ validNonce \in Nonces

C5_Witness ==
    /\ pc = "returned"
    /\ FoundReadBack
    /\ devFlag = 1
    /\ output = "D2"
    /\ validNonce = "N1"

\* C6: once the work sizes are computed, the global work-item count is at
\* least batchSize and an exact multiple of the local work size.
C6_GlobalCoversBatch ==
    pc = "enqueue" =>
        /\ globalWorkSize >= batchSize
        /\ \E k \in 0..SizeMod : globalWorkSize = k * localWorkSize

\* C7: releaseResources releases exactly the non-null handles it is given, and
\* a second call with the same arguments releases nothing again: no handle is
\* released twice.
C7_ReleaseIdempotent ==
    /\ \A r \in Resources : ReleaseCount(r) <= 1
    /\ \A r \in Resources : Released(r) => handles[r]

\* position of a resource in the release order of lines 34..40
Rank(r) ==
    CASE r \in BufferSet -> 1
      [] r = "kernel" -> 2
      [] r = "program" -> 3
      [] r = "commandQueue" -> 4
      [] r = "context" -> 5

\* C8: the releases of one call happen in the order buffers, kernel, program,
\* command queue, context, and nothing is released while an object released
\* earlier in that order is still live.
C8_ReleaseOrder ==
    /\ \A i, j \in 1..Len(relLog) : i < j => Rank(relLog[i]) <= Rank(relLog[j])
    /\ \A r \in Resources :
          Released(r) => \A q \in live : q # r /\ Rank(q) >= Rank(r)

C8_Witness ==
    /\ pc = "returned"
    /\ Len(relLog) = Cardinality(Resources)

\* C9: a readback is handed to the driver only when the kernel has completed.
C9_ReadAfterCompletion == readsIssued # {} => kernelState = "done"

\* C10: the kernel is enqueued only after the blocking write of 0 to FoundFlag
\* succeeded (FoundFlag holds 0 when the kernel is enqueued); after a failed
\* write the kernel is never enqueued and the call can only return -1.
C10_FlagZeroBeforeEnqueue ==
    /\ kernelState # "none" => flagWritten
    /\ kernelState = "enqueued" => devFlag = 0
    /\ FlagWriteFailed =>
          /\ kernelState = "none"
          /\ pc \in {"set_args", "release", "returned"}
          /\ pc = "returned" => ret = -1

C10_Witness ==
    /\ kernelState = "enqueued"
    /\ flagWritten
    /\ devFlag = 0

\* the failures the code answers with exit(EXIT_FAILURE), and those it answers
\* with return -1
EnumerationSteps == {"platforms", "devices"}
CreationSteps == {"context", "queue"}
LaterSteps == {"files", "program", "kernel", "buffer", "write", "arg", "enqueue"}

BuildSteps == {"files", "program", "build", "kernel"}

\* C12: when a kernel source file is missing, or program creation, compilation
\* or extraction of the entry point fails, the call does not end the process,
\* allocates no buffer, returns -1 with the context, the queue and any program
\* or kernel released, and on a compile failure nothing is released before the
\* build log has been emitted.
C12_BuildFailureReturns ==
    failed \cap BuildSteps # {} =>
       /\ pc \notin {"exited", "crashed"}
       /\ acquired \cap BufferSet = {}
       /\ pc = "returned" => ret = -1 /\ live = {}
       /\ "build" \in failed /\ relLog # << >> => buildLog

\* C13: when the call has ended, the caller's digest and nonce are either both
\* written or both as they were at entry, and they are as they were at entry
\* when the call returned -1 or 0 or ended the process.
C13_OutputsOnlyOnMatch ==
    Ended =>
       /\ (output = "orig") <=> (validNonce = "orig")
       /\ pc \in {"exited", "crashed"} \/ ret \in {-1, 0} =>
             output = "orig" /\ validNonce = "orig"

\* C14: the device diagnostics are transparent. The flag showDeviceInfo is read
\* only where the call enters the diagnostics, so two calls that differ in it
\* alone end alike and acquire and release alike exactly when every step taken
\* inside the diagnostics, whatever the attribute queries answer, goes on to
\* context creation and changes nothing but the record of what was printed.
C14_DiagnosticsTransparent ==
    [][pc = "device_info" =>
          /\ pc' = "create_context"
          /\ UNCHANGED << params, caller, platformNames, platformIndex, platformId,
                          numDevices, buildLog, drv, disp, dev, rd, rel, ret, failed >>]_vars

\* the 0-based positions of the names equal to the hint; a null or empty hint
\* equals no name
Matches(names, hint) ==
    {i \in 0..(Len(names) - 1) : hint \notin {"null", ""} /\ names[i + 1] = hint}

FirstMatchOrFirst(names, hint) ==
    IF Matches(names, hint) = {}
    THEN 0
    ELSE CHOOSE i \in Matches(names, hint) : \A j \in Matches(names, hint) : i <= j

\* C15: for every enumerated platform list and every hint, once the selection
\* of line 71 has run the selected platform is the first one whose name equals
\* the hint, and the first enumerated one when the hint is null or empty or no
\* name equals it.
C15_FirstMatchSelected ==
    pc \in {"device_count", "crashed"} =>
       /\ pc = "device_count"
       /\ platformId = FirstMatchOrFirst(platformNames, platform)

\* C16: in a sequence of calls with identical valid parameters, whenever a call
\* has returned no device resource is live, as before the first call: nothing
\* accumulates from one call to the next.
C16_NoAccumulation ==
    pc = "returned" => live = {}

\* a later call of the sequence has acquired all eight resources without a
\* failure and has returned
C16_Witness ==
    /\ pc = "returned"
    /\ calls = MaxCalls
    /\ failed = {}
    /\ acquired = Resources
    /\ ret \in {0, 1}
    /\ live = {}

\* the handles the last releaseResources call was given (nulls left out)
PassedSet ==
    {o \in Objects : relArgs.obj[o]}
       \cup {Buffers[i] : i \in {j \in 1..relArgs.bufferCount : handles[Buffers[j]]}}

\* the failure branches that return before anything is acquired
EarlySteps == {"invalid_device", "context"}

\* C17 as stated: on every failure branch, when the call has returned
\* releaseResources has been invoked exactly once, with exactly the handles
\* acquired, and every acquired handle has been released exactly once and no
\* other handle at all.
C17_ReleaseOnEveryFailure ==
    pc = "returned" /\ failed # {} =>
       /\ relCalls = 1
       /\ PassedSet = acquired
       /\ \A r \in Resources : ReleaseCount(r) = IF r \in acquired THEN 1 ELSE 0

\* C17, amended: on every failure branch taken after the context exists, when
\* the call has returned releaseResources has been invoked exactly once, with
\* exactly the handles acquired; the branches of an invalid device index and of
\* a failed context creation return without invoking it, having acquired
\* nothing. On all of them every acquired handle has been released exactly once
\* and no other handle at all, and in no state is a handle released twice or
\* released without having been acquired.
C17_ReleaseOncePerFailure ==
    /\ \A r \in Resources : ReleaseCount(r) <= 1 /\ (Released(r) => r \in acquired)
    /\ pc = "returned" /\ failed # {} =>
          /\ IF failed \cap EarlySteps # {}
             THEN relCalls = 0 /\ acquired = {}
             ELSE relCalls = 1 /\ PassedSet = acquired
          /\ \A r \in Resources : ReleaseCount(r) = IF r \in acquired THEN 1 ELSE 0

\* a buffer creation failed, some buffers were created, and the call has returned
C17_Witness ==
    /\ pc = "returned"
    /\ "buffer" \in failed
    /\ acquired \cap BufferSet # {}
    /\ relCalls = 1

\* C18: in every state of a call, the states in the middle of a release
\* included, a live buffer implies that the kernel, program, queue and context
\* are live, a live kernel implies a live program, and a live program or queue
\* implies a live context.
C18_DependenciesLive ==
    /\ live \cap BufferSet # {} => Objects \subseteq live
    /\ "kernel" \in live => "program" \in live
    /\ "program" \in live \/ "commandQueue" \in live => "context" \in live

\* in the middle of a release: the buffers and the kernel are gone, the program
\* is still live
C18_Witness ==
    /\ pc = "release"
    /\ BufferSet \subseteq acquired
    /\ Released("kernel")
    /\ "program" \in live

\* C19: once a buffer creation has failed the call only finishes the creations,
\* releases and returns -1: no FoundFlag write, no argument binding and no
\* enqueue is ever attempted. Once an argument binding or the enqueue has
\* failed the call only finishes the bindings, releases and returns -1: no
\* wait for the queue and no readback is ever issued.
C19_FailureStopsCall ==
    /\ "buffer" \in failed =>
          /\ pc \in {"create_buffers", "release", "returned"}
          /\ ~flagWritten /\ "write" \notin failed
          /\ argIdx = 0 /\ "arg" \notin failed
          /\ kernelState = "none" /\ "enqueue" \notin failed
    /\ "arg" \in failed \/ "enqueue" \in failed =>
          /\ pc \in {"set_args", "release", "returned"}
          /\ kernelState = "none"
          /\ readsIssued = {}
    /\ failed \cap {"buffer", "arg", "enqueue"} # {} /\ pc = "returned" => ret = -1

\* the enqueue failed after nine successful bindings and the call has returned
C19_Witness ==
    /\ pc = "returned"
    /\ "enqueue" \in failed
    /\ argIdx = ArgCount
    /\ ret = -1

\* the stages of a call in the order of the source text
StageOrder ==
    << "start", "select_platform", "device_count", "check_device", "device_info",
       "create_context", "create_queue", "open_files", "create_program",
       "build_program", "build_log", "create_kernel", "create_buffers", "write_flag",
       "set_args", "query_group", "partition", "enqueue", "finish", "read_found",
       "wait_found", "read_output", "read_nonce", "final_release", "release" >>

StageRank(p) ==
    IF p \in {"returned", "exited", "crashed"}
    THEN Len(StageOrder) + 1
    ELSE CHOOSE i \in 1..Len(StageOrder) : StageOrder[i] = p

ReleaseOrder == << "buffers", "kernel", "program", "commandQueue", "context", "end" >>
ReleaseRank(st) == CHOOSE i \in 1..Len(ReleaseOrder) : ReleaseOrder[i] = st

\* the steps taken inside the current stage: loop iterations, and the device's
\* completion of the kernel
StepsInStage ==
    bufIdx + argIdx + relI + (IF kernelState = "done" THEN 1 ELSE 0)
       + (IF pc = "release" THEN ReleaseRank(relStage) ELSE 0)

StageWeight == 2 * BufferCount + ArgCount + Len(ReleaseOrder) + 2

Progress == StageRank(pc) * StageWeight + StepsInStage

\* C20: every call eventually ends, by a return or by the end of the process,
\* when every step that can be taken is eventually taken; and every step moves
\* the call forward, to a later stage or to the next iteration inside its
\* stage, so that no stage is entered twice.
C20_CallEnds ==
    /\ <>Ended
    /\ [][Progress' > Progress]_vars

\* a call that went through every stage, the three readbacks included, and returned
C20_Witness ==
    /\ pc = "returned"
    /\ readsIssued = {"found", "output", "nonce"}
    /\ relCalls = 1

====
